---- MODULE Spec2Model ----
(***************************************************************************)
(* Session-adaptation decision engine of intelligent_running_plan:         *)
(* core/session_adapter.py, models/session.py, models/metrics.py and       *)
(* config/settings.py.                                                     *)
(*                                                                         *)
(* Numbers.  Python floats are modelled by exact decimal fixed point:      *)
(*   - a recovery score is held in tenths of a point (round(x, 1));        *)
(*   - a factor in [0,1] is held in thousandths (0.3 is 300);              *)
(*   - a composite score is held in 1/10000 of a point;                    *)
(*   - a distance is held in hundredths of a kilometre;                    *)
(*   - a reduction factor is held in hundredths (0.75 is 75).              *)
(* An Optional[T] value is <<>> for None and <<v>> for a present v.        *)
(***************************************************************************)
EXTENDS Integers, Sequences, FiniteSets, TLC

None == <<>>
Some(v) == <<v>>
Val(o) == o[1]

\* Python truthiness of an Optional number: None and 0 are both falsy.
Truthy(o) == o # None /\ Val(o) # 0

Min(a, b) == IF a <= b THEN a ELSE b
Max(a, b) == IF a >= b THEN a ELSE b

\* int(x) of a non-negative quotient num/den: truncation.
IntTrunc(num, den) == num \div den

\* round(num/den) to an integer.  On an exact decimal tie the IEEE-754 double
\* that Python rounds may lie on either side of the tie; `up` is the side.
RoundTie(num, den, up) ==
    LET q == num \div den
        r2 == 2 * (num % den)
    IN  IF r2 > den THEN q + 1
        ELSE IF r2 < den THEN q
        ELSE IF up THEN q + 1 ELSE q

(***************************************************************************)
(* models/session.py                                                       *)
(***************************************************************************)
SessionType == {"ENDURANCE", "TEMPO", "THRESHOLD", "INTERVALS", "LONG_RUN",
                "RECOVERY", "RACE", "REST", "FARTLEK"}

SessionIntensity == {"VERY_EASY", "EASY", "MODERATE", "HARD", "VERY_HARD"}

SessionStatus == {"PLANNED", "ADAPTED", "COMPLETED", "SKIPPED", "POSTPONED"}

PaceZone(description, duration_minutes, distance_km, pace_min, pace_max, hr_zone, repetitions, recovery_minutes) ==
    [description |-> description,
     duration_minutes |-> duration_minutes,
     distance_km |-> distance_km,
     pace_min_per_km |-> pace_min,
     pace_max_per_km |-> pace_max,
     hr_zone |-> hr_zone,
     repetitions |-> repetitions,
     recovery_minutes |-> recovery_minutes]

TrainingSession(id, session_type, intensity, title, duration_minutes, distance_km, structure, is_key, postponable, replaceable) ==
    [id |-> id,
     session_type |-> session_type,
     intensity |-> intensity,
     title |-> title,
     description |-> <<"planned">>,
     duration_minutes |-> duration_minutes,
     distance_km |-> distance_km,
     structure |-> structure,
     status |-> "PLANNED",
     adaptation_reason |-> None,
     original_session_id |-> None,
     is_key_session |-> is_key,
     can_be_postponed |-> postponable,
     can_be_replaced |-> replaceable,
     completed_at |-> None]

\* TrainingSession.mark_as_completed: the clock value `now` stamps completed_at.
mark_as_completed(s, now) ==
    [s EXCEPT !.status = "COMPLETED", !.completed_at = Some(now)]

\* One zone scaled by a reduction factor given in hundredths.
ScaleZoneDurationOnly(zone, reduction, up) ==
    [zone EXCEPT
        !.duration_minutes =
            IF Truthy(zone.duration_minutes)
            THEN Some(IntTrunc(Val(zone.duration_minutes) * reduction, 100))
            ELSE zone.duration_minutes]

ScaleZone(zone, reduction, up) ==
    [zone EXCEPT
        !.duration_minutes =
            IF Truthy(zone.duration_minutes)
            THEN Some(IntTrunc(Val(zone.duration_minutes) * reduction, 100))
            ELSE zone.duration_minutes,
        !.distance_km =
            IF Truthy(zone.distance_km)
            THEN Some(RoundTie(Val(zone.distance_km) * reduction, 100, up))
            ELSE zone.distance_km]

ScaleStructure(structure, reduction, up) ==
    [i \in 1..Len(structure) |-> ScaleZone(structure[i], reduction, up)]

\* TrainingSession.adapt_session(new_type, reduction_factor, reason), in place.
session_adapt_session(s, new_type, reduction, reason, up) ==
    LET s1 == [s EXCEPT !.status = "ADAPTED", !.adaptation_reason = Some(reason)]
        s2 == IF new_type # None
              THEN [s1 EXCEPT !.original_session_id = Some(s.id),
                              !.session_type = Val(new_type)]
              ELSE s1
    IN  IF reduction < 100
        THEN [s2 EXCEPT
                !.duration_minutes = IntTrunc(s.duration_minutes * reduction, 100),
                !.distance_km =
                    IF Truthy(s.distance_km)
                    THEN Some(RoundTie(Val(s.distance_km) * reduction, 100, up))
                    ELSE s.distance_km,
                !.structure = ScaleStructure(s.structure, reduction, up)]
        ELSE s2

(***************************************************************************)
(* core/session_adapter.py: the session mutators                           *)
(***************************************************************************)
AdaptedSuffix == <<"_adapted">>
EasySuffix == <<"_easy">>

\* SessionAdapter._lighten_session: a deep copy, scaled.  The session distance
\* is rounded to one decimal (tenths of a km), the zone distances to two.
LightenDurationRounded(duration_minutes, reduction) ==
    RoundTie(duration_minutes * reduction, 100, TRUE)

LightenDuration(duration_minutes, reduction) ==
    IntTrunc(duration_minutes * reduction, 100)

LightenIntensityKept(intensity) == intensity

LightenIntensity(intensity) ==
    IF intensity = "VERY_HARD" THEN "HARD"
    ELSE IF intensity = "HARD" THEN "MODERATE"
    ELSE intensity

LightenIdKept(id) == id

LightenId(id) == id \o AdaptedSuffix

LightenStatus(status) == "ADAPTED"

lighten_session(s, reduction, up) ==
    [s EXCEPT
        !.id = LightenId(s.id),
        !.status = LightenStatus(s.status),
        !.adaptation_reason = Some(<<"allegee", IntTrunc(reduction * 100, 100)>>),
        !.duration_minutes = LightenDuration(s.duration_minutes, reduction),
        !.distance_km =
            IF Truthy(s.distance_km)
            THEN Some(10 * RoundTie(Val(s.distance_km) * reduction, 1000, up))
            ELSE s.distance_km,
        !.structure = ScaleStructure(s.structure, reduction, up),
        !.intensity = LightenIntensity(s.intensity)]

\* SessionAdapter._replace_with_easy: a deep copy turned into a canned
\* recovery run.
EasyDurationCap == 40
EasyDurationPercent == 60
EasyDistance == 600

EasyDurationUncapped(duration_minutes) ==
    IntTrunc(duration_minutes * EasyDurationPercent, 100)

EasyDuration(duration_minutes) ==
    Min(EasyDurationCap, IntTrunc(duration_minutes * EasyDurationPercent, 100))

EasyId(id) == id \o EasySuffix

EasyZone(duration_minutes) ==
    PaceZone("Endurance tres facile", Some(duration_minutes), None,
             "6:15", Some("6:30"), Some("70-75% FCmax"), 1, None)

replace_with_easy(s) ==
    [s EXCEPT
        !.id = EasyId(s.id),
        !.session_type = "RECOVERY",
        !.intensity = "EASY",
        !.status = "ADAPTED",
        !.adaptation_reason = Some(<<"remplacee">>),
        !.title = <<"Recuperation active (remplace ">> \o s.title \o <<")">>,
        !.description = <<"Course facile de recuperation">>,
        !.duration_minutes = EasyDuration(s.duration_minutes),
        !.distance_km = Some(EasyDistance),
        !.structure = <<EasyZone(EasyDuration(s.duration_minutes))>>]

(***************************************************************************)
(* models/metrics.py                                                       *)
(***************************************************************************)
\* Exact fractions <<numerator, denominator>>, denominator > 0, in lowest terms.
RECURSIVE Gcd(_, _)
Gcd(a, b) == IF b = 0 THEN a ELSE Gcd(b, a % b)

Frac(n, d) == LET g == Gcd(n, d) IN IF g = 0 THEN <<0, 1>> ELSE <<n \div g, d \div g>>
FracAdd(x, y) == Frac(x[1] * y[2] + y[1] * x[2], x[2] * y[2])
FracScale(k, x) == Frac(k * x[1], x[2])
FracLeq(x, y) == x[1] * y[2] <= y[1] * x[2]
FracOne == <<1, 1>>
FracZero == <<0, 1>>
FracClamp01(x) == IF FracLeq(x, FracZero) THEN FracZero ELSE IF FracLeq(FracOne, x) THEN FracOne ELSE x

\* SleepData.get_normalized_score: min(sleep_score / 100, 1.0).
SleepScore(sleep) == IF sleep.sleep_score >= 100 THEN FracOne ELSE Frac(sleep.sleep_score, 100)

\* HeartRateVariability.get_normalized_score(baseline_hrv).
HrvScoreUnclamped(hrv, baseline_hrv) ==
    IF baseline_hrv = 0 THEN Frac(1, 2) ELSE Frac(hrv.hrv_ms, baseline_hrv)

HrvScore(hrv, baseline_hrv) ==
    IF baseline_hrv = 0 THEN Frac(1, 2) ELSE FracClamp01(Frac(hrv.hrv_ms, baseline_hrv))

\* RestingHeartRate.get_normalized_score(baseline_rhr).
RhrScore(rhr, baseline_rhr) ==
    IF baseline_rhr = 0 THEN Frac(1, 2) ELSE FracClamp01(Frac(baseline_rhr, rhr.rhr_bpm))

\* TrainingLoad.calculate_acwr: the stored acwr afterwards (hundredths; loads
\* are whole numbers here).  With chronic_load == 0 it returns 1.0 and stores
\* nothing.
calculate_acwr(tl, up) ==
    IF tl.chronic_load = 0
    THEN tl
    ELSE [tl EXCEPT !.acwr = Some(RoundTie(100 * tl.acute_load, tl.chronic_load, up))]

\* TrainingLoad.get_normalized_score reads self.acwr after the optional
\* calculate_acwr; a None there makes the comparison raise TypeError.
LoadAfterAcwr(tl, up) == IF Truthy(tl.acwr) THEN tl ELSE calculate_acwr(tl, up)

LoadScoreRaises(tl, up) == LoadAfterAcwr(tl, up).acwr = None

LoadScore(tl, up) ==
    LET acwr == Val(LoadAfterAcwr(tl, up).acwr)
    IN  IF 80 <= acwr /\ acwr <= 130 THEN FracOne
        ELSE IF acwr < 80 THEN Frac(Max(0, acwr), 80)
        ELSE Frac(Max(0, 200 - acwr), 70)

\* SubjectiveMetrics.get_normalized_score: the mean of the sub-scores present.
SubjectiveParts(sub) ==
    (IF Truthy(sub.motivation) THEN <<Frac(Val(sub.motivation), 5)>> ELSE <<>>)
    \o (IF Truthy(sub.energy) THEN <<Frac(Val(sub.energy), 5)>> ELSE <<>>)
    \o (IF Truthy(sub.mood) THEN <<Frac(Val(sub.mood), 5)>> ELSE <<>>)
    \o (IF Truthy(sub.muscle_soreness) THEN <<Frac(5 - Val(sub.muscle_soreness), 4)>> ELSE <<>>)

RECURSIVE FracSum(_)
FracSum(xs) == IF xs = <<>> THEN FracZero ELSE FracAdd(Head(xs), FracSum(Tail(xs)))

SubjectiveScore(sub) ==
    LET scores == SubjectiveParts(sub)
    IN  IF scores = <<>> THEN Frac(1, 2)
        ELSE LET total == FracSum(scores) IN Frac(total[1], total[2] * Len(scores))

\* The default weights of calculate_recovery_score, in hundredths.
DefaultWeights == [sleep |-> 35, hrv |-> 25, load |-> 20, rhr |-> 10, subjective |-> 10]

BaselineHrv == 50
BaselineRhr == 50
NeutralScore == 500

ComponentNames == <<"sleep", "hrv", "load", "rhr", "subjective">>

\* components: the keys present in the aggregate (an absent record is falsy).
Present(m) == {k \in {"sleep", "hrv", "load", "rhr", "subjective"} :
                 IF k = "load" THEN m.training_load # None ELSE m[k] # None}

Component(m, k, up) ==
    IF k = "sleep" THEN SleepScore(Val(m.sleep))
    ELSE IF k = "hrv" THEN HrvScore(Val(m.hrv), BaselineHrv)
    ELSE IF k = "load" THEN LoadScore(Val(m.training_load), up)
    ELSE IF k = "rhr" THEN RhrScore(Val(m.rhr), BaselineRhr)
    ELSE SubjectiveScore(Val(m.subjective))

RECURSIVE WeightedSum(_, _, _, _)
WeightedSum(m, weights, i, up) ==
    IF i > Len(ComponentNames) THEN FracZero
    ELSE LET k == ComponentNames[i]
             rest == WeightedSum(m, weights, i + 1, up)
         IN  IF k \in Present(m) THEN FracAdd(FracScale(weights[k], Component(m, k, up)), rest)
             ELSE rest

TotalWeightOfAll(m, weights, i) ==
    weights.sleep + weights.hrv + weights.load + weights.rhr + weights.subjective

RECURSIVE TotalWeight(_, _, _)
TotalWeight(m, weights, i) ==
    IF i > Len(ComponentNames) THEN 0
    ELSE (IF ComponentNames[i] \in Present(m) THEN weights[ComponentNames[i]] ELSE 0)
         + TotalWeight(m, weights, i + 1)

\* round(x * 100, 1) of a fraction x in [0, 1], in tenths of a point, one
\* decimal digit at a time.
RoundTenths(x, up) ==
    LET d1 == (10 * x[1]) \div x[2]
        r1 == (10 * x[1]) % x[2]
        d2 == (10 * r1) \div x[2]
        r2 == (10 * r1) % x[2]
        d3 == (10 * r2) \div x[2]
        r3 == (10 * r2) % x[2]
    IN  100 * d1 + 10 * d2 + d3
          + (IF 2 * r3 > x[2] \/ (2 * r3 = x[2] /\ up) THEN 1 ELSE 0)

WeightedScore(m, weights, up) ==
    LET total_weight == TotalWeight(m, weights, 1)
        score == WeightedSum(m, weights, 1, up)
    IN  IF total_weight = 0 THEN NeutralScore
        ELSE RoundTenths(Frac(score[1], score[2] * total_weight), up)

\* The readiness tier of a recovery score held in tenths.
ReadinessOf(recovery_score) ==
    IF recovery_score >= 850 THEN "OPTIMAL"
    ELSE IF recovery_score >= 700 THEN "GOOD"
    ELSE IF recovery_score >= 550 THEN "OK"
    ELSE IF recovery_score >= 400 THEN "COMPROMISED"
    ELSE "POOR"

ScoreRaises(m, up) == m.training_load # None /\ LoadScoreRaises(Val(m.training_load), up)

calculate_recovery_score_acute(m, weights, up) ==
    IF ScoreRaises(m, up) THEN m
    ELSE LET m1 == IF m.training_load = None THEN m
                   ELSE [m EXCEPT !.training_load = Some([Val(m.training_load) EXCEPT !.acwr = Some(100 * Val(m.training_load).acute_load)])]
             rs == WeightedScore(m, weights, up)
         IN  [m1 EXCEPT !.recovery_score = Some(rs), !.readiness_level = Some(ReadinessOf(rs))]

\* DailyMetrics.calculate_recovery_score: the aggregate afterwards.  The load
\* component stores the ACWR it derives; a raise in it leaves the score unset.
calculate_recovery_score(m, weights, up) ==
    IF ScoreRaises(m, up) THEN m
    ELSE LET m1 == IF m.training_load = None THEN m
                   ELSE [m EXCEPT !.training_load = Some(LoadAfterAcwr(Val(m.training_load), up))]
             rs == WeightedScore(m, weights, up)
         IN  [m1 EXCEPT !.recovery_score = Some(rs), !.readiness_level = Some(ReadinessOf(rs))]

\* DailyMetrics.has_available_time.
has_available_time(m, required_minutes) ==
    (24 - m.calendar_busy_hours - 8) * 60 >= required_minutes


(***************************************************************************)
(* config/settings.py and the decision engine of core/session_adapter.py   *)
(***************************************************************************)
RECOVERY_THRESHOLDS ==
    [excellent |-> 85, good |-> 70, moderate |-> 55, poor |-> 40, very_poor |-> 0]

KeySessionAdjust == -5

PointScale == 10000

HardIntensities == {"HARD", "VERY_HARD"}

\* The values the four analyzers can return, in thousandths.
LoadFactors == {300, 600, 700, 900, 1000}
SequenceFactors == {400, 700, 1000}
AvailabilityFactors == {300, 500, 1000}

\* The weighted sum of lines 247-252 in exact decimal arithmetic.
ExactComposite(rf, lf, sf, af) == 10 * (40 * rf + 25 * lf + 20 * sf + 15 * af)

\* The same expression is evaluated in IEEE-754 doubles, and 0.40, 0.25*0.7,
\* 0.15*0.3 ... are not binary fractions.  Over recovery factors of three
\* decimals and the analyzers' factor values, the double result compares
\* differently from the exact value against a threshold on exactly these
\* <<recovery, load, sequence, availability>> tuples: the exact value is the
\* threshold and the double is one ulp below it
\* (1.0*0.40 + 0.7*0.25 + 1.0*0.20 + 0.5*0.15 evaluates to 0.8499999999999999).
DoubleRoundsBelow ==
    {<<225, 900, 700, 300>>, <<275, 900, 700, 500>>, <<350, 700, 700, 300>>,
     <<375, 900, 1000, 500>>, <<400, 700, 700, 500>>, <<500, 700, 1000, 500>>,
     <<600, 300, 700, 300>>, <<650, 300, 700, 500>>, <<650, 700, 700, 500>>,
     <<675, 900, 400, 500>>, <<1000, 700, 1000, 500>>}

CompositeScore(rf, lf, sf, af) ==
    ExactComposite(rf, lf, sf, af)
        - (IF <<rf, lf, sf, af>> \in DoubleRoundsBelow THEN 1 ELSE 0)

ThresholdAdjustRaised(s) == IF s.is_key_session THEN -KeySessionAdjust ELSE 0

ThresholdAdjust(s) == IF s.is_key_session THEN KeySessionAdjust ELSE 0

Threshold(name, s) == (RECOVERY_THRESHOLDS[name] + ThresholdAdjust(s)) * PointScale

Outcome(action, reason, modified) ==
    [action |-> action, reason |-> reason, modified_session |-> modified]

PostponeOrCancel(s, af) ==
    IF af < 400 /\ s.can_be_postponed
    THEN Outcome("POSTPONE", "conflit d'agenda", None)
    ELSE Outcome("CANCEL", "repos complet", None)

ReplaceOrReduceBare(s, up) ==
    IF s.intensity \in HardIntensities
    THEN Outcome("REPLACE", "remplacee par endurance legere", None)
    ELSE Outcome("REDUCE", "allegee de 40%", None)

ReplaceOrReduce(s, up) ==
    IF s.intensity \in HardIntensities
    THEN Outcome("REPLACE", "remplacee par endurance legere", Some(replace_with_easy(s)))
    ELSE Outcome("REDUCE", "allegee de 40%", Some(lighten_session(s, 60, up)))

\* SessionAdapter._decide_action (the recovery_score argument is not read).
decide_action(s, rf, af, lf, sf, up) ==
    LET composite_score == CompositeScore(rf, lf, sf, af)
    IN  IF composite_score >= Threshold("excellent", s)
        THEN Outcome("MAINTAIN", "conditions optimales", None)
        ELSE IF composite_score >= Threshold("good", s)
        THEN Outcome("MONITOR", "surveiller", None)
        ELSE IF composite_score >= Threshold("moderate", s)
        THEN Outcome("REDUCE", "allegee de 25%", Some(lighten_session(s, 75, up)))
        ELSE IF composite_score >= Threshold("poor", s)
        THEN ReplaceOrReduce(s, up)
        ELSE PostponeOrCancel(s, af)

(***************************************************************************)
(* core/session_adapter.py: the analyzers and adapt_session                *)
(***************************************************************************)
ACWR_OPTIMAL_MIN == 80
ACWR_OPTIMAL_MAX == 130
AcwrCaution == 150
NeutralAvailability == 500
NeutralLoad == 700
SafetyMargin == 30

\* recovery_score = metrics.recovery_score or 50.0: None and 0.0 are falsy.
RecoveryScoreOr(m) == IF Truthy(m.recovery_score) THEN Val(m.recovery_score) ELSE NeutralScore

\* _analyze_recovery: recovery_score / 100.0, in thousandths.
analyze_recovery_halved(recovery_score) == recovery_score \div 2

analyze_recovery(recovery_score) == recovery_score

\* _analyze_availability.
analyze_availability_no_margin(s, m) ==
    IF m.available_time_slots = <<>> THEN NeutralAvailability
    ELSE IF has_available_time(m, s.duration_minutes) THEN 1000
    ELSE 300

analyze_availability(s, m) ==
    IF m.available_time_slots = <<>> THEN NeutralAvailability
    ELSE IF has_available_time(m, s.duration_minutes + SafetyMargin) THEN 1000
    ELSE 300

\* _analyze_training_load.
analyze_training_load_lenient(m) ==
    IF m.training_load = None \/ ~Truthy(Val(m.training_load).acwr) THEN NeutralLoad
    ELSE LET acwr == Val(Val(m.training_load).acwr)
         IN  IF ACWR_OPTIMAL_MIN <= acwr /\ acwr <= ACWR_OPTIMAL_MAX THEN 1000
             ELSE IF acwr < ACWR_OPTIMAL_MIN THEN 900
             ELSE 600

analyze_training_load(m) ==
    IF m.training_load = None \/ ~Truthy(Val(m.training_load).acwr) THEN NeutralLoad
    ELSE LET acwr == Val(Val(m.training_load).acwr)
         IN  IF ACWR_OPTIMAL_MIN <= acwr /\ acwr <= ACWR_OPTIMAL_MAX THEN 1000
             ELSE IF acwr < ACWR_OPTIMAL_MIN THEN 900
             ELSE IF acwr <= AcwrCaution THEN 600
             ELSE 300

\* (datetime.now() - completed_at).days: whole days, rounded down; hours here.
DaysBetween(now, completed_at) == (now - completed_at) \div 24

InLast48h(r, now) == r.completed_at # None /\ DaysBetween(now, Val(r.completed_at)) <= 2

IntenseRecent(recent, now) ==
    Cardinality({i \in 1..Len(recent) :
                   InLast48h(recent[i], now) /\ recent[i].intensity \in HardIntensities})

\* _analyze_sequence; recent = <<>> stands for None and for the empty list.
analyze_sequence_any_hard(s, recent, now) ==
    IF recent = <<>> THEN 1000
    ELSE LET intense_recent == IntenseRecent(recent, now)
         IN  IF intense_recent >= 2 /\ s.intensity \in HardIntensities THEN 400
             ELSE IF intense_recent = 1 /\ s.intensity \in HardIntensities THEN 700
             ELSE 1000

analyze_sequence(s, recent, now) ==
    IF recent = <<>> THEN 1000
    ELSE LET intense_recent == IntenseRecent(recent, now)
         IN  IF intense_recent >= 2 /\ s.intensity \in HardIntensities THEN 400
             ELSE IF intense_recent = 1 /\ s.intensity = "VERY_HARD" THEN 700
             ELSE 1000

\* _calculate_confidence: data_points / 5, in thousandths.
DataPointsWithRhr(m) ==
    (IF m.sleep # None THEN 1 ELSE 0) + (IF m.hrv # None THEN 1 ELSE 0)
    + (IF m.training_load # None THEN 1 ELSE 0)
    + (IF m.available_time_slots # <<>> THEN 1 ELSE 0)
    + (IF m.rhr # None THEN 1 ELSE 0)

DataPoints(m) ==
    (IF m.sleep # None THEN 1 ELSE 0) + (IF m.hrv # None THEN 1 ELSE 0)
    + (IF m.training_load # None THEN 1 ELSE 0)
    + (IF m.available_time_slots # <<>> THEN 1 ELSE 0)
    + (IF m.subjective # None THEN 1 ELSE 0)

calculate_confidence(m) == (1000 * DataPoints(m)) \div 5

\* The aggregate after step 1 of adapt_session.
MetricsAfterScoring(m, up) ==
    IF m.recovery_score = None THEN calculate_recovery_score(m, DefaultWeights, up) ELSE m

AdaptRaises(m, up) == m.recovery_score = None /\ ScoreRaises(m, up)

Factors(s, m, recent, now) ==
    [recovery |-> analyze_recovery(RecoveryScoreOr(m)),
     availability |-> analyze_availability(s, m),
     load |-> analyze_training_load(m),
     sequence |-> analyze_sequence(s, recent, now)]

Recommendation(outcome, confidence) ==
    [action |-> outcome.action, reason |-> outcome.reason,
     modified_session |-> outcome.modified_session, confidence |-> confidence]

\* SessionAdapter.adapt_session, when it returns: the recommendation.
adapt_session(s, m, recent, now, up) ==
    LET m1 == MetricsAfterScoring(m, up)
        f == Factors(s, m1, recent, now)
    IN  Recommendation(decide_action(s, f.recovery, f.availability, f.load, f.sequence, up),
                       calculate_confidence(m1))

\* session.model_copy(deep=True) in _lighten_session: the positions whose
\* PaceZone object the copy has in common with the original.  A deep copy has
\* none; a shallow one would have them all.
SharedAfterShallowCopy(s) == 1..Len(s.structure)

SharedAfterCopy(s) == {}

\* The PaceZone objects of the returned session that are objects of the input:
\* _replace_with_easy binds a new list, _lighten_session keeps the copy's.
SharedZones(s, rec) == {i \in SharedAfterCopy(s) : rec.action = "REDUCE"}

\* The caller's session once adapt_session has returned: the loop of
\* _lighten_session assigns to the zones of the copy, so a zone the copy
\* shared with the original would be scaled in the original as well.
SessionAfterAdapt(s, rec) ==
    IF SharedZones(s, rec) = {}
    THEN s
    ELSE [s EXCEPT !.structure =
            [i \in 1..Len(s.structure) |->
                IF i \in SharedZones(s, rec) THEN Val(rec.modified_session).structure[i] ELSE s.structure[i]]]

\* quick_adapt: the aggregate it synthesises.
DailyMetrics(sleep, hrv, rhr, training_load, subjective, busy, slots, recovery_score, readiness) ==
    [sleep |-> sleep, hrv |-> hrv, rhr |-> rhr, training_load |-> training_load,
     subjective |-> subjective, calendar_busy_hours |-> busy,
     available_time_slots |-> slots, recovery_score |-> recovery_score,
     readiness_level |-> readiness]

\* quick_adapt's own readiness ladder (lines 433-443), score in tenths.
QuickReadinessShifted(recovery_score) ==
    IF recovery_score > 850 THEN "OPTIMAL"
    ELSE IF recovery_score > 700 THEN "GOOD"
    ELSE IF recovery_score > 550 THEN "OK"
    ELSE IF recovery_score > 400 THEN "COMPROMISED"
    ELSE "POOR"

QuickReadiness(recovery_score) ==
    IF recovery_score >= 850 THEN "OPTIMAL"
    ELSE IF recovery_score >= 700 THEN "GOOD"
    ELSE IF recovery_score >= 550 THEN "OK"
    ELSE IF recovery_score >= 400 THEN "COMPROMISED"
    ELSE "POOR"

QuickMetricsOverloaded(recovery_score, has_time) ==
    DailyMetrics(None, None, None, Some([acute_load |-> 450, chronic_load |-> 250, acwr |-> Some(180)]), None, 0,
                 IF has_time THEN <<"18:00-20:00">> ELSE <<>>,
                 Some(recovery_score), Some(QuickReadiness(recovery_score)))

QuickMetrics(recovery_score, has_time) ==
    DailyMetrics(None, None, None, None, None, 0,
                 IF has_time THEN <<"18:00-20:00">> ELSE <<>>,
                 Some(recovery_score), Some(QuickReadiness(recovery_score)))

\* No history is passed on, so the sequence analyzer never reads the clock.
quick_adapt(s, recovery_score, has_time, up) ==
    adapt_session(s, QuickMetrics(recovery_score, has_time), <<>>, 0, up)

(***************************************************************************)
(* The state: the caller's session and Metrics Aggregate, and the last     *)
(* call made on them with what it returned.                                *)
(***************************************************************************)
VARIABLES session, metrics, last

vars == <<session, metrics, last>>

\* `up`, `prev` and `recent` keep what a later call is compared with: how the
\* scorer's rounding ties fell, what the scorer returned the call before, and
\* the history adapt_session was given.
NoCall ==
    [op |-> "none", raised |-> FALSE, score |-> None, factors |-> None, reduction |-> None,
     outcome |-> None, rec |-> None, session |-> None, up |-> None, prev |-> None,
     recent |-> None, readiness |-> None, now |-> None, factor |-> None, shared |-> None]

\* ---- input domains --------------------------------------------------------
MaxDuration == 70
MaxClock == 2
ScoreGrid == 25

ClockStep == 60

\* Clock readings, in hours.
Hours == {ClockStep * k : k \in 0..MaxClock}

SampleStructure ==
    <<PaceZone("Echauffement", Some(15), None, "6:00", None, Some("70-75% FCmax"), 1, None),
      PaceZone("400m VMA", None, Some(40), "3:30", None, Some("95-100% FCmax"), 10, Some(15)),
      PaceZone("Retour au calme", Some(10), Some(145), "6:30", Some("7:00"), None, 1, None)>>

SampleSession(intensity, duration_minutes, distance_km, is_key, postponable) ==
    TrainingSession(<<"T3x10">>, "THRESHOLD", intensity, <<"Seuil 3x10min">>, duration_minutes, distance_km, SampleStructure, is_key, postponable, TRUE)

EmptyMetrics == DailyMetrics(None, None, None, None, None, 0, <<>>, None, None)

\* ---- SessionAdapter._decide_action called on its own ----------------------
DecideSessions ==
    {SampleSession(i, 60, Some(1200), k, p) : i \in SessionIntensity, k \in BOOLEAN, p \in BOOLEAN}

RecoveryFactors == {r \in 0..1000 : r % ScoreGrid = 0}

FactorTuples ==
    {[recovery |-> rf, availability |-> af, load |-> lf, sequence |-> sf] :
        rf \in RecoveryFactors, af \in AvailabilityFactors, lf \in LoadFactors, sf \in SequenceFactors}

\* The four factors of the call to come are drawn with the session.
InitDecide ==
    /\ session \in DecideSessions
    /\ metrics = EmptyMetrics
    /\ \E f \in FactorTuples : last = [NoCall EXCEPT !.factors = Some(f)]

DecideAction ==
    \E up \in BOOLEAN :
        /\ last.op = "none"
        /\ last.factors # None
        /\ LET f == Val(last.factors)
           IN  last' = [last EXCEPT
                           !.op = "decide_action",
                           !.outcome = Some(decide_action(session, f.recovery, f.availability, f.load, f.sequence, up))]
        /\ UNCHANGED <<session, metrics>>

NextDecide == DecideAction

SpecDecide == InitDecide /\ [][NextDecide]_vars

\* ---- the session's own operations and the two mutators --------------------
MutatorSessions ==
    {SampleSession(i, d, km, FALSE, TRUE) : i \in {"EASY", "HARD", "VERY_HARD"}, d \in 1..MaxDuration, km \in {None, Some(900)}}
    \cup {SampleSession(i, 60, Some(1250), FALSE, TRUE) : i \in SessionIntensity}

InitSession ==
    /\ session \in MutatorSessions
    /\ metrics = EmptyMetrics
    /\ last = NoCall

LightenSession ==
    \E reduction \in {75, 60}, up \in BOOLEAN :
        /\ last' = [NoCall EXCEPT !.op = "lighten_session", !.reduction = Some(reduction),
                                  !.session = Some(lighten_session(session, reduction, up))]
        /\ UNCHANGED <<session, metrics>>

ReplaceWithEasy ==
    /\ last' = [NoCall EXCEPT !.op = "replace_with_easy", !.session = Some(replace_with_easy(session))]
    /\ UNCHANGED <<session, metrics>>

MarkAsCompleted ==
    \E now \in Hours :
        /\ session' = mark_as_completed(session, now)
        /\ last' = [NoCall EXCEPT !.op = "mark_as_completed"]
        /\ UNCHANGED metrics

SessionAdaptSession ==
    \E new_type \in {None, Some("RECOVERY")}, reduction \in {75, 100}, up \in BOOLEAN :
        /\ session' = session_adapt_session(session, new_type, reduction, "fatigue", up)
        /\ last' = [NoCall EXCEPT !.op = "adapt_session"]
        /\ UNCHANGED metrics

NextSession == LightenSession \/ ReplaceWithEasy \/ MarkAsCompleted \/ SessionAdaptSession

SpecSession == InitSession /\ [][NextSession]_vars

\* ---- SessionAdapter.adapt_session, quick_adapt and the recovery scorer ----
SleepData(sleep_score) == [sleep_score |-> sleep_score]
HeartRateVariability(hrv_ms) == [hrv_ms |-> hrv_ms]
RestingHeartRate(rhr_bpm) == [rhr_bpm |-> rhr_bpm]
TrainingLoad(acute_load, chronic_load, acwr) == [acute_load |-> acute_load, chronic_load |-> chronic_load, acwr |-> acwr]
SubjectiveMetrics(motivation, energy, mood, muscle_soreness) == [motivation |-> motivation, energy |-> energy, mood |-> mood, muscle_soreness |-> muscle_soreness]

OneSlot == <<"18:00-20:00">>

AdaptSessions ==
    {SampleSession(i, 60, Some(1200), k, p) : i \in {"EASY", "HARD", "VERY_HARD"}, k \in BOOLEAN, p \in BOOLEAN}
    \cup {[SampleSession("VERY_HARD", 60, Some(1200), FALSE, p) EXCEPT !.can_be_replaced = FALSE] : p \in BOOLEAN}

AdaptMetrics ==
    {DailyMetrics(sleep, hrv, None, tl, sub, cal[1], cal[2], rs, None) :
        sleep \in {None, Some(SleepData(30)), Some(SleepData(90))},
        hrv \in {None, Some(HeartRateVariability(55))},
        tl \in {None, Some(TrainingLoad(280, 250, None)), Some(TrainingLoad(0, 0, None)), Some(TrainingLoad(450, 250, Some(180)))},
        sub \in {None, Some(SubjectiveMetrics(Some(5), Some(5), Some(5), Some(1)))},
        cal \in {<<0, <<>> >>, <<0, OneSlot>>, <<16, OneSlot>>},
        rs \in {None, Some(0), Some(600)}}
    \cup {DailyMetrics(sleep, None, Some(RestingHeartRate(48)), None, None, 0, OneSlot, None, None) :
            sleep \in {None, Some(SleepData(90))}}

\* Recent sessions as the sequence analyzer reads them: a hard session
\* completed at hour 0, one never completed, an easy one completed at hour 0.
RecentHard == [intensity |-> "HARD", completed_at |-> Some(0)]
RecentHardOpen == [intensity |-> "VERY_HARD", completed_at |-> None]
RecentEasy == [intensity |-> "EASY", completed_at |-> Some(0)]

RecentHistories ==
    {<<>>, <<RecentHard>>, <<RecentEasy, RecentHard>>, <<RecentHard, RecentHard>>,
     <<RecentHard, RecentHardOpen>>, <<RecentHard, RecentEasy, RecentHard>>}

QuickScores == {r \in 0..1000 : r % ScoreGrid = 0}

Init ==
    /\ session \in AdaptSessions
    /\ metrics \in AdaptMetrics
    /\ last = NoCall

AdaptSession ==
    \E up \in BOOLEAN :
        IF AdaptRaises(metrics, up)
        THEN /\ last' = [NoCall EXCEPT !.op = "adapt_session", !.raised = TRUE]
             /\ UNCHANGED <<session, metrics>>
        ELSE LET m1 == MetricsAfterScoring(metrics, up)
             IN  \E recent \in RecentHistories, now \in Hours :
                     \* m1 carries its score, so adapt_session scores it no further
                     LET rec == adapt_session(session, m1, recent, now, up)
                     IN  /\ metrics' = m1
                         /\ last' = [NoCall EXCEPT
                                        !.op = "adapt_session",
                                        !.recent = Some(recent),
                                        !.factors = Some(Factors(session, m1, recent, now)),
                                        !.shared = Some(SharedZones(session, rec)),
                                        !.rec = Some(rec)]
                         /\ session' = SessionAfterAdapt(session, rec)

QuickAdapt ==
    \E recovery_score \in QuickScores, has_time \in BOOLEAN, up \in BOOLEAN :
        LET m == QuickMetrics(recovery_score, has_time)
            rec == quick_adapt(session, recovery_score, has_time, up)
        IN  /\ last' = [NoCall EXCEPT
                           !.op = "quick_adapt",
                           !.score = Some(recovery_score),
                           !.readiness = m.readiness_level,
                           !.factors = Some(Factors(session, m, <<>>, 0)),
                           !.shared = Some(SharedZones(session, rec)),
                           !.rec = Some(rec)]
            /\ session' = SessionAfterAdapt(session, rec)
            /\ UNCHANGED metrics

\* What the scorer returned, if it was the call just before this one.
PreviousScore ==
    IF last.op = "calculate_recovery_score" /\ ~last.raised
    THEN Some([score |-> last.score, readiness |-> metrics.readiness_level, up |-> last.up])
    ELSE None

CalculateRecoveryScore ==
    \E up \in BOOLEAN :
        IF ScoreRaises(metrics, up)
        THEN /\ last' = [NoCall EXCEPT !.op = "calculate_recovery_score", !.raised = TRUE]
             /\ UNCHANGED <<session, metrics>>
        ELSE /\ metrics' = calculate_recovery_score(metrics, DefaultWeights, up)
             /\ last' = [NoCall EXCEPT
                            !.op = "calculate_recovery_score",
                            !.up = Some(up),
                            !.prev = PreviousScore,
                            !.score = calculate_recovery_score(metrics, DefaultWeights, up).recovery_score]
             /\ UNCHANGED session

Next == AdaptSession \/ CalculateRecoveryScore

Spec == Init /\ [][Next]_vars

\* ---- quick_adapt on its own ------------------------------------------------
\* Aggregates for the scorer whose scores sit on and beside the readiness
\* bands (a sleep record alone scores its sleep_score).
QuickAggregates ==
    {DailyMetrics(Some(SleepData(n)), None, None, None, None, 0, <<>>, None, None) :
        n \in {0, 39, 40, 54, 55, 69, 70, 84, 85, 100}}

\* The last one is longer than the 16 hours a free day leaves.
QuickSessions ==
    {SampleSession(i, 60, Some(1200), k, TRUE) : i \in {"EASY", "HARD", "VERY_HARD"}, k \in BOOLEAN}
    \cup {SampleSession("VERY_HARD", 960, Some(1200), FALSE, TRUE)}

InitQuick ==
    /\ session \in QuickSessions
    /\ metrics \in QuickAggregates
    /\ last = NoCall

NextQuick == QuickAdapt \/ CalculateRecoveryScore

SpecQuick == InitQuick /\ [][NextQuick]_vars

\* ---- the recovery scorer over a wider range of aggregates -----------------
ScoreMetrics ==
    {DailyMetrics(sleep, hrv, rhr, tl, sub, 0, <<>>, None, None) :
        sleep \in {None} \cup {Some(SleepData(n)) : n \in {0, 30, 82, 85, 101}},
        hrv \in {None} \cup {Some(HeartRateVariability(n)) : n \in {25, 40, 55}},
        rhr \in {None} \cup {Some(RestingHeartRate(n)) : n \in {48, 60, 100}},
        tl \in {None, Some(TrainingLoad(280, 250, None)), Some(TrainingLoad(0, 0, None)),
                Some(TrainingLoad(0, 0, Some(0))), Some(TrainingLoad(250, 250, Some(100))),
                Some(TrainingLoad(450, 250, Some(180))), Some(TrainingLoad(125, 250, Some(50))),
                Some(TrainingLoad(625, 250, Some(250)))},
        sub \in {None, Some(SubjectiveMetrics(None, None, None, None)),
                 Some(SubjectiveMetrics(Some(5), Some(5), Some(5), Some(1))),
                 Some(SubjectiveMetrics(Some(2), Some(3), None, Some(4)))}}

InitScore ==
    /\ session = SampleSession("HARD", 60, Some(1200), TRUE, TRUE)
    /\ metrics \in ScoreMetrics
    /\ last = NoCall

NextScore == CalculateRecoveryScore \/ AdaptSession

SpecScore == InitScore /\ [][NextScore]_vars

\* ---- one aggregate reused across adapt_session calls -----------------------
ReuseSessions ==
    {SampleSession(i, 60, Some(1200), FALSE, p) : i \in {"EASY", "VERY_HARD"}, p \in BOOLEAN}

\* What the athlete declares: all at best, all at worst.
SubjectiveReadings ==
    {Some(SubjectiveMetrics(Some(5), Some(5), Some(5), Some(1))),
     Some(SubjectiveMetrics(Some(1), Some(1), Some(1), Some(5)))}

ReuseMetrics ==
    {DailyMetrics(sleep, hrv, None, tl, sub, 0, slots, None, None) :
        sleep \in {Some(SleepData(30)), Some(SleepData(90))},
        hrv \in {None, Some(HeartRateVariability(40))},
        tl \in {None, Some(TrainingLoad(280, 250, None))},
        sub \in {None} \cup SubjectiveReadings,
        slots \in {<<>>, OneSlot}}

InitReuse ==
    /\ session \in ReuseSessions
    /\ metrics \in ReuseMetrics
    /\ last = NoCall

\* The caller stores a new subjective record in the aggregate it holds
\* (metrics.subjective = SubjectiveMetrics(...)).
ChangeSignal ==
    \E subjective \in SubjectiveReadings :
        /\ subjective # metrics.subjective
        /\ metrics' = [metrics EXCEPT !.subjective = subjective]
        /\ last' = [NoCall EXCEPT !.op = "change_signal"]
        /\ UNCHANGED session

NextReuse == AdaptSession \/ ChangeSignal

SpecReuse == InitReuse /\ [][NextReuse]_vars

(***************************************************************************)
(* Claims about the decision ladder (SpecDecide)                           *)
(***************************************************************************)
\* What a decision amounts to: its action and, for REDUCE, the share of the
\* volume kept (read from the modified session's adaptation reason).
Tier(outcome) ==
    <<outcome.action,
      IF outcome.action = "REDUCE" THEN Val(Val(outcome.modified_session).adaptation_reason)[2] ELSE 0>>

Decided == last.op = "decide_action"

\* The ladder as the specification states it, over the exact composite.
LadderTier(s, f) ==
    LET composite == ExactComposite(f.recovery, f.load, f.sequence, f.availability)
        adj == IF s.is_key_session THEN -5 ELSE 0
        at(t) == composite >= (t + adj) * PointScale
    IN  IF at(85) THEN <<"MAINTAIN", 0>>
        ELSE IF at(70) THEN <<"MONITOR", 0>>
        ELSE IF at(55) THEN <<"REDUCE", 75>>
        ELSE IF at(40) THEN (IF s.intensity \in {"HARD", "VERY_HARD"} THEN <<"REPLACE", 0>> ELSE <<"REDUCE", 60>>)
        ELSE IF f.availability < 400 /\ s.can_be_postponed THEN <<"POSTPONE", 0>>
        ELSE <<"CANCEL", 0>>

\* C1: for every session and every combination of the four factors,
\* _decide_action returns the action the threshold ladder gives for
\* composite = 100 x (0.40 recovery + 0.25 load + 0.20 sequence + 0.15 availability),
\* every threshold lowered by 5 for a key session.
C1_DecisionLadder ==
    Decided => Tier(Val(last.outcome)) = LadderTier(session, Val(last.factors))

\* C2: a composite exactly equal to an (adjusted) threshold maps to the higher
\* tier: 85 MAINTAIN, 70 MONITOR, 55 REDUCE at 0.75, 40 REPLACE or REDUCE at
\* 0.6, and 80, 65, 50, 35 for a key session.
C2_BoundaryHigherTier ==
    Decided =>
        LET f == Val(last.factors)
            composite == ExactComposite(f.recovery, f.load, f.sequence, f.availability)
            tier == Tier(Val(last.outcome))
        IN  /\ composite = Threshold("excellent", session) => tier = <<"MAINTAIN", 0>>
            /\ composite = Threshold("good", session) => tier = <<"MONITOR", 0>>
            /\ composite = Threshold("moderate", session) => tier = <<"REDUCE", 75>>
            /\ composite = Threshold("poor", session) => tier \in {<<"REPLACE", 0>>, <<"REDUCE", 60>>}

\* The harshness order MAINTAIN < MONITOR < REDUCE 25% < REDUCE 40% / REPLACE
\* < POSTPONE / CANCEL.
Harshness(tier) ==
    IF tier[1] = "MAINTAIN" THEN 0
    ELSE IF tier[1] = "MONITOR" THEN 1
    ELSE IF tier = <<"REDUCE", 75>> THEN 2
    ELSE IF tier[1] \in {"REDUCE", "REPLACE"} THEN 3
    ELSE 4

\* The decision for the session that differs from `session` only in
\* is_key_session, on the same factors.
TwinTier ==
    LET f == Val(last.factors)
        twin == [session EXCEPT !.is_key_session = ~session.is_key_session]
    IN  Tier(decide_action(twin, f.recovery, f.availability, f.load, f.sequence, FALSE))

\* C3: on identical factors a key session never receives a harsher action
\* than the session differing from it only in is_key_session.
C3_KeySessionLeniency ==
    Decided =>
        IF session.is_key_session
        THEN Harshness(Tier(Val(last.outcome))) <= Harshness(TwinTier)
        ELSE Harshness(TwinTier) <= Harshness(Tier(Val(last.outcome)))

C3_Witness ==
    /\ Decided
    /\ session.is_key_session
    /\ Harshness(Tier(Val(last.outcome))) < Harshness(TwinTier)

(***************************************************************************)
(* Claims about the session and its mutators (SpecSession)                 *)
(***************************************************************************)
Lightened == last.op = "lighten_session"
Replaced == last.op = "replace_with_easy"

\* C5: duration_minutes > 0 holds for every session at all times: the
\* session itself after TrainingSession.adapt_session, and the session a
\* mutator returns.
C5_DurationPositive ==
    /\ session.duration_minutes > 0
    /\ last.session # None => Val(last.session).duration_minutes > 0

\* The lifecycle order of a status: planned, then adapted, then one of the
\* closing statuses.
StatusRank(status) ==
    IF status = "PLANNED" THEN 0 ELSE IF status = "ADAPTED" THEN 1 ELSE 2

\* C6: under any sequence of the status-changing operations the session's
\* status only moves forward from planned and never reverts to an earlier
\* status.
C6_StatusNeverReverts ==
    [][StatusRank(session'.status) >= StatusRank(session.status)]_vars

\* Python's round(num/den): to the nearest integer, an exact half to the even
\* neighbour (3d/4 is exact in binary).
RoundHalfEven(num, den) ==
    LET q == num \div den
        r2 == 2 * (num % den)
    IN  IF r2 > den \/ (r2 = den /\ q % 2 = 1) THEN q + 1 ELSE q

EasyShape(new) ==
    /\ new.session_type = "RECOVERY"
    /\ new.intensity = "EASY"
    /\ new.status = "ADAPTED"
    /\ new.distance_km = Some(600)
    /\ Len(new.structure) = 1
    /\ new.structure[1].duration_minutes = Some(new.duration_minutes)
    /\ new.structure[1].description = "Endurance tres facile"
    /\ new.structure[1].distance_km = None

\* C8: replace_with_easy returns a RECOVERY / EASY / ADAPTED session of
\* duration min(40, 0.6 x original), distance 6.0 km, whose structure is one
\* easy PaceZone lasting the new duration.
C8_EasySession ==
    Replaced =>
        LET new == Val(last.session)
        IN  /\ EasyShape(new)
            /\ IF 6 * session.duration_minutes >= 400
               THEN new.duration_minutes = 40
               ELSE 10 * new.duration_minutes = 6 * session.duration_minutes

\* C8 as amended: the duration is min(40, 0.6 x original truncated to an
\* integer); everything else as claimed.
C8_EasySessionTruncated ==
    Replaced =>
        LET new == Val(last.session)
            d == new.duration_minutes
        IN  /\ EasyShape(new)
            /\ d <= 40
            /\ 10 * d <= 6 * session.duration_minutes
            /\ d < 40 => 6 * session.duration_minutes < 10 * (d + 1)

C8_Witness ==
    /\ Replaced
    /\ 6 * session.duration_minutes >= 410
    /\ Val(last.session).duration_minutes = 40

(***************************************************************************)
(* Claims about adapt_session (Spec)                                       *)
(***************************************************************************)
Adapted == last.op = "adapt_session" /\ ~last.raised

\* C4: in every recommendation returned by adapt_session a modified session
\* is present if and only if the action is REDUCE or REPLACE.
C4_ModifiedIffReduceOrReplace ==
    Adapted =>
        (Val(last.rec).modified_session # None <=> Val(last.rec).action \in {"REDUCE", "REPLACE"})

C4_Witness ==
    /\ Adapted
    /\ Val(last.rec).action = "REPLACE"
    /\ Val(last.rec).modified_session # None

\* C9: every modified session returned by adapt_session has status ADAPTED
\* and an id that is the original id with a suffix appended: it differs from
\* the original id, which is recovered by dropping the suffix.
C9_ModifiedIdTraceable ==
    (Adapted /\ Val(last.rec).modified_session # None) =>
        LET new == Val(Val(last.rec).modified_session)
        IN  /\ new.status = "ADAPTED"
            /\ new.id # session.id
            /\ \E suffix \in {<<"_adapted">>, <<"_easy">>} :
                  /\ new.id = session.id \o suffix
                  /\ SubSeq(new.id, 1, Len(new.id) - Len(suffix)) = session.id

C9_Witness ==
    /\ Adapted
    /\ Val(last.rec).action = "REDUCE"
    /\ Val(Val(last.rec).modified_session).id = <<"T3x10", "_adapted">>

(***************************************************************************)
(* Claims about the recovery scorer (SpecScore)                            *)
(***************************************************************************)
Scored == last.op = "calculate_recovery_score" /\ ~last.raised

\* The claimed weighted mean of the aggregate's present components, as the
\* fraction sum(weight x score) / sum(weight).
ClaimedTerm(m, k, w) == IF k \in Present(m) THEN FracScale(w, Component(m, k, FALSE)) ELSE FracZero

ClaimedWeight(m, k, w) == IF k \in Present(m) THEN w ELSE 0

ClaimedSum(m) ==
    FracAdd(ClaimedTerm(m, "sleep", 35),
        FracAdd(ClaimedTerm(m, "hrv", 25),
            FracAdd(ClaimedTerm(m, "load", 20),
                FracAdd(ClaimedTerm(m, "rhr", 10), ClaimedTerm(m, "subjective", 10)))))

ClaimedTotal(m) ==
    ClaimedWeight(m, "sleep", 35) + ClaimedWeight(m, "hrv", 25) + ClaimedWeight(m, "load", 20)
        + ClaimedWeight(m, "rhr", 10) + ClaimedWeight(m, "subjective", 10)

\* score (tenths) * total * den - 1000 * num: zero when the score is exactly
\* 100 x the weighted mean.
ScoreGap(m) ==
    Val(m.recovery_score) * ClaimedTotal(m) * ClaimedSum(m)[2] - 1000 * ClaimedSum(m)[1]

Abs(x) == IF x < 0 THEN -x ELSE x

InUnit(x) == FracLeq(FracZero, x) /\ FracLeq(x, FracOne)

\* C11: for every valid aggregate and session the recovery score lies in
\* [0,100], every component score lies in [0,1], and each of the four factors
\* passed to the decision lies in [0,1].
C11_ScoreBounds ==
    /\ metrics.recovery_score # None =>
            (0 <= Val(metrics.recovery_score) /\ Val(metrics.recovery_score) <= 1000)
    /\ \A up \in BOOLEAN :
            ~ScoreRaises(metrics, up) => \A k \in Present(metrics) : InUnit(Component(metrics, k, up))
    /\ last.factors # None =>
            \A name \in {"recovery", "availability", "load", "sequence"} :
                0 <= Val(last.factors)[name] /\ Val(last.factors)[name] <= 1000

C11_Witness ==
    /\ Adapted
    /\ metrics.sleep = Some(SleepData(101))
    /\ metrics.hrv = Some(HeartRateVariability(55))
    /\ metrics.training_load = Some(TrainingLoad(625, 250, Some(250)))
    /\ metrics.recovery_score # None

(***************************************************************************)
(* Claims about repeated scoring (SpecScore)                               *)
(***************************************************************************)
\* The scorer has just returned for the second time in a row, both times with
\* the rounding ties falling the same way (a double rounds one way only).
ScoredAgain == Scored /\ last.prev # None /\ Val(last.prev).up = last.up

\* C12: calling calculate_recovery_score twice in a row on an aggregate whose
\* signal fields are not modified in between yields the same recovery score
\* and the same readiness tier both times; the second call returns whenever
\* the first did.
C12_ScorerIdempotent ==
    /\ ScoredAgain =>
            /\ last.score = Val(last.prev).score
            /\ metrics.readiness_level = Val(last.prev).readiness
    /\ Scored => \A up \in BOOLEAN : ~ScoreRaises(metrics, up)

C12_Witness ==
    /\ ScoredAgain
    /\ metrics.training_load = Some(TrainingLoad(280, 250, Some(112)))
    /\ metrics.sleep # None

(***************************************************************************)
(* Claims about adapt_session on sparse and degenerate aggregates (Spec)   *)
(***************************************************************************)
\* C13: a missing optional signal is never an error: calculate_recovery_score
\* and adapt_session return for every aggregate, whichever optional signals
\* are absent, a training-load record without ACWR and with chronic load 0
\* included.
C13_MissingSignalNeverRaises == ~last.raised

\* The inputs the confidence counts, as the specification lists them.
CountedInputs(m) ==
    Cardinality({k \in {"sleep", "hrv", "training_load", "subjective"} : m[k] # None})
        + (IF m.available_time_slots # <<>> THEN 1 ELSE 0)

\* C16: the confidence of every recommendation is (number of inputs present
\* among sleep, hrv, training_load, available_time_slots, subjective) / 5:
\* one of 0, 0.2, ..., 1.0, whatever the session, the resting-HR record and
\* the action.
C16_ConfidenceIsCompleteness ==
    Adapted =>
        /\ Val(last.rec).confidence = 200 * CountedInputs(metrics)
        /\ Val(last.rec).confidence \in {0, 200, 400, 600, 800, 1000}

C16_Witness ==
    /\ Adapted
    /\ metrics.rhr # None
    /\ metrics.sleep # None
    /\ Val(last.rec).confidence = 400

\* C20: for every recovery score in [0,100], 0 included, the recovery factor
\* adapt_session puts in the composite is exactly recovery_score / 100.
C20_RecoveryFactorIsScore ==
    Adapted => Val(last.factors).recovery = Val(metrics.recovery_score)

(***************************************************************************)
(* Claims about an aggregate reused across calls (SpecReuse, Spec)         *)
(***************************************************************************)
\* C14: no stale recovery score is used on a reused aggregate: the recovery
\* score an adapt_session call decides on is the score of the aggregate's
\* current signal fields, also when a signal changed since an earlier call.
C14_NoStaleScore ==
    Adapted =>
        \E up \in BOOLEAN :
            Val(last.factors).recovery = WeightedScore(metrics, DefaultWeights, up)

\* Two adapt_session calls in a row with equal arguments: the same session,
\* the same history, and an aggregate the second call leaves as it found it.
SameArguments ==
    /\ last.op = "adapt_session" /\ ~last.raised
    /\ last'.op = "adapt_session" /\ ~last'.raised
    /\ last'.recent = last.recent
    /\ session' = session
    /\ metrics' = metrics

\* C15: adapt_session is a pure function of its arguments: two calls with
\* equal (session, metrics, histories) return the same action, modified
\* session and confidence, whenever they are made.
C15_PureFunction ==
    [][SameArguments =>
        /\ Val(last'.rec).action = Val(last.rec).action
        /\ Val(last'.rec).modified_session = Val(last.rec).modified_session
        /\ Val(last'.rec).confidence = Val(last.rec).confidence]_vars

(***************************************************************************)
(* Claims about the worked scenarios (Spec, SpecQuick)                     *)
(***************************************************************************)
\* Scenario 2: sleep score 30, no HRV, no resting HR, ACWR 1.8, no subjective
\* data, no time today (no slot listed, or slots listed on a full day), no
\* session history; the recovery score is the one scored from these signals.
Scenario2 ==
    /\ Adapted
    /\ metrics.sleep = Some(SleepData(30))
    /\ metrics.hrv = None
    /\ metrics.rhr = None
    /\ metrics.training_load = Some(TrainingLoad(450, 250, Some(180)))
    /\ metrics.subjective = None
    /\ metrics.recovery_score = Some(WeightedScore(metrics, DefaultWeights, FALSE))
    /\ Val(last.factors).availability < 1000
    /\ last.recent = Some(<<>>)

Scenario2Composite ==
    LET f == Val(last.factors) IN CompositeScore(f.recovery, f.load, f.sequence, f.availability)

\* C17: in scenario 2 the composite score is below 40 and the action is
\* POSTPONE when session.can_be_postponed and CANCEL when it is not.
C17_Scenario2BelowForty ==
    Scenario2 =>
        /\ Scenario2Composite < 40 * PointScale
        /\ Val(last.rec).action = (IF session.can_be_postponed THEN "POSTPONE" ELSE "CANCEL")

\* C17 as amended: in scenario 2 the composite score is 43.8 on a full day
\* (46.8 when no slot is listed at all), in the poor band, and the action is
\* REPLACE for a hard or very-hard session and REDUCE at 0.6 scale otherwise,
\* whether or not the session can be postponed.
C17_Scenario2PoorBand ==
    Scenario2 =>
        /\ Scenario2Composite = (IF Val(last.factors).availability = 300 THEN 438000 ELSE 468000)
        /\ Tier(Val(last.rec)) = (IF session.intensity \in {"HARD", "VERY_HARD"} THEN <<"REPLACE", 0>> ELSE <<"REDUCE", 60>>)

C17_Witness ==
    /\ Scenario2
    /\ Val(last.factors).availability = 300
    /\ session.can_be_postponed
    /\ session.intensity = "VERY_HARD"
    /\ Val(last.rec).action = "REPLACE"

\* quick_adapt has returned for a bare score, time being available.
QuickWithTime == last.op = "quick_adapt" /\ Val(last.factors).availability = 1000

\* C18: with only a bare recovery score (time available) the action follows
\* the recovery band of the score: the moderate band (e.g. 60) on a non-key
\* hard session gives REDUCE with duration round(0.75 x original), the poor
\* band (e.g. 45) on a very-hard session gives REPLACE with a RECOVERY session
\* of duration <= min(40, 0.6 x original).
C18_QuickFollowsBand ==
    QuickWithTime =>
        LET score == Val(last.score)
            rec == Val(last.rec)
        IN  /\ (550 <= score /\ score < 700 /\ session.intensity = "HARD" /\ ~session.is_key_session) =>
                    /\ rec.action = "REDUCE"
                    /\ Val(rec.modified_session).duration_minutes = RoundHalfEven(3 * session.duration_minutes, 4)
            /\ (400 <= score /\ score < 550 /\ session.intensity = "VERY_HARD") =>
                    /\ rec.action = "REPLACE"
                    /\ Val(rec.modified_session).session_type = "RECOVERY"
                    /\ Val(rec.modified_session).duration_minutes <= 40
                    /\ 10 * Val(rec.modified_session).duration_minutes <= 6 * session.duration_minutes

\* C18 as amended: with only a bare recovery score (time available) the
\* action follows the composite 0.4 x score + 52.5, the neutral load factor
\* and the full sequence and availability factors adding 52.5 points.  For a
\* score in the moderate or poor band, [40, 70): MAINTAIN, MONITOR or REDUCE
\* at 0.75 scale by that composite against the (key-adjusted) thresholds,
\* never REPLACE; a REDUCE carries duration int(0.75 x original).  So 60 on a
\* non-key hard session and 45 on a very-hard session both give MONITOR.
C18_QuickFollowsComposite ==
    (QuickWithTime /\ 400 <= Val(last.score) /\ Val(last.score) < 700) =>
        LET composite == 400 * Val(last.score) + 525000
            adj == IF session.is_key_session THEN -5 ELSE 0
            rec == Val(last.rec)
        IN  /\ Tier(rec) = (IF composite >= (85 + adj) * PointScale THEN <<"MAINTAIN", 0>>
                            ELSE IF composite >= (70 + adj) * PointScale THEN <<"MONITOR", 0>>
                            ELSE <<"REDUCE", 75>>)
            /\ rec.action = "REDUCE" =>
                    LET new == Val(rec.modified_session).duration_minutes
                    IN  4 * new <= 3 * session.duration_minutes /\ 3 * session.duration_minutes < 4 * (new + 1)
            /\ (Val(last.score) \in {450, 600} /\ session.intensity \in {"HARD", "VERY_HARD"}) =>
                    (rec.action = "MONITOR" /\ rec.modified_session = None)

C18_Witness ==
    /\ QuickWithTime
    /\ Val(last.score) = 600
    /\ session.intensity = "HARD"
    /\ ~session.is_key_session
    /\ Val(last.rec).action = "MONITOR"
    /\ Val(last.rec).modified_session = None

(***************************************************************************)
(* Claims about the readiness tier (SpecQuick)                             *)
(***************************************************************************)
\* The tier the score bands fix, for a score in tenths of a point.
BandTier(score) ==
    IF score >= 850 THEN "OPTIMAL"
    ELSE IF score >= 700 THEN "GOOD"
    ELSE IF score >= 550 THEN "OK"
    ELSE IF score >= 400 THEN "COMPROMISED"
    ELSE "POOR"

\* C19: an aggregate that carries a recovery score after scoring, or after
\* synthesis by quick_adapt, has the readiness tier of the score bands
\* (>= 85 optimal, >= 70 good, >= 55 ok, >= 40 compromised, else poor); the
\* two code paths give the same tier to the same score.
C19_ReadinessBands ==
    /\ metrics.recovery_score # None =>
            metrics.readiness_level = Some(BandTier(Val(metrics.recovery_score)))
    /\ last.op = "quick_adapt" => last.readiness = Some(BandTier(Val(last.score)))

C19_Witness ==
    /\ last.op = "quick_adapt"
    /\ last.score = Some(850)
    /\ last.readiness = Some("OPTIMAL")
    /\ metrics.recovery_score = Some(850)
    /\ metrics.readiness_level = Some("OPTIMAL")

(***************************************************************************)
(* The analyzers of SessionAdapter called on their own                     *)
(***************************************************************************)
AnalyzeSessions == {SampleSession(i, d, Some(1200), FALSE, TRUE) : i \in SessionIntensity, d \in {30, 60, 90}}

AnalyzeLoads ==
    {None, Some(TrainingLoad(0, 0, None))}
    \cup {Some(TrainingLoad(250, 250, Some(a))) : a \in {0, 50, 79, 80, 100, 130, 131, 150, 151, 180}}

AnalyzeCalendars == {<<b, sl>> : b \in {0, 14, 15, 16, 20}, sl \in {<<>>, OneSlot}}

AnalyzeMetrics ==
    {DailyMetrics(None, None, None, tl, None, cal[1], cal[2], rs, None) :
        tl \in AnalyzeLoads, cal \in AnalyzeCalendars, rs \in {None, Some(675)}}

RecentVeryHard == [intensity |-> "VERY_HARD", completed_at |-> Some(12)]

AnalyzeHistories == RecentHistories \cup {<<RecentVeryHard>>, <<RecentHard, RecentVeryHard>>}

InitAnalyze ==
    /\ session \in AnalyzeSessions
    /\ metrics \in AnalyzeMetrics
    /\ last = NoCall

AnalyzeAvailability ==
    /\ last' = [NoCall EXCEPT !.op = "analyze_availability", !.factor = Some(analyze_availability(session, metrics))]
    /\ UNCHANGED <<session, metrics>>

AnalyzeTrainingLoad ==
    /\ last' = [NoCall EXCEPT !.op = "analyze_training_load", !.factor = Some(analyze_training_load(metrics))]
    /\ UNCHANGED <<session, metrics>>

AnalyzeSequence ==
    \E recent \in AnalyzeHistories, now \in Hours :
        /\ last' = [NoCall EXCEPT !.op = "analyze_sequence", !.recent = Some(recent), !.now = Some(now),
                                  !.factor = Some(analyze_sequence(session, recent, now))]
        /\ UNCHANGED <<session, metrics>>

NextAnalyze == AnalyzeAvailability \/ AnalyzeTrainingLoad \/ AnalyzeSequence

SpecAnalyze == InitAnalyze /\ [][NextAnalyze]_vars

(***************************************************************************)
(* C21: the availability factor                                            *)
(***************************************************************************)
FreeMinutes == (24 - metrics.calendar_busy_hours - 8) * 60

ClaimedAvailability ==
    IF metrics.available_time_slots = <<>> THEN 500
    ELSE IF FreeMinutes >= session.duration_minutes + 30 THEN 1000
    ELSE 300

\* C21: the availability factor is 0.5 when the metrics list no free-time
\* slot; otherwise 1.0 when (24 - busy hours - 8) * 60 minutes cover the
\* session's duration plus 30 minutes, and 0.3 when they do not; it takes no
\* other value.
C21_AvailabilityFactor ==
    last.op = "analyze_availability" =>
        /\ last.factor = Some(ClaimedAvailability)
        /\ Val(last.factor) \in {300, 500, 1000}

\* The free minutes are exactly the duration plus the margin.
C21_Witness ==
    /\ last.op = "analyze_availability"
    /\ metrics.available_time_slots # <<>>
    /\ FreeMinutes = session.duration_minutes + 30
    /\ last.factor = Some(1000)

(***************************************************************************)
(* C22: the load factor                                                    *)
(***************************************************************************)
AcwrPresent == metrics.training_load # None /\ Val(metrics.training_load).acwr # None

ClaimedLoad ==
    IF ~AcwrPresent THEN 700
    ELSE LET acwr == Val(Val(metrics.training_load).acwr)
         IN  IF acwr < 80 THEN 900
             ELSE IF acwr <= 130 THEN 1000
             ELSE IF acwr <= 150 THEN 600
             ELSE 300

\* C22: the load factor is 1.0 for an ACWR in [0.8, 1.3], 0.9 for every
\* present ACWR below 0.8 (an ACWR of 0 included), 0.6 for an ACWR in
\* (1.3, 1.5], 0.3 above 1.5, and 0.7 only when the ACWR is unavailable.
C22_LoadFactor == last.op = "analyze_training_load" => last.factor = Some(ClaimedLoad)

(***************************************************************************)
(* C23, C24: the sequence factor and its look-back window                  *)
(***************************************************************************)
SequenceCalled == last.op = "analyze_sequence"

ClaimedSequence(n) ==
    IF n >= 2 /\ session.intensity \in {"HARD", "VERY_HARD"} THEN 400
    ELSE IF n = 1 /\ session.intensity = "VERY_HARD" THEN 700
    ELSE 1000

\* The hard and very hard sessions of the history that the analyzer's
\* look-back window holds.
HardInWindow ==
    LET recent == Val(last.recent)
    IN  Cardinality({i \in 1..Len(recent) :
                       InLast48h(recent[i], Val(last.now)) /\ recent[i].intensity \in {"HARD", "VERY_HARD"}})

\* The composite the decision would see with this sequence factor, the other
\* three factors being those of the current session and metrics.
CompositeWith(sf) ==
    CompositeScore(analyze_recovery(RecoveryScoreOr(metrics)), analyze_training_load(metrics), sf, analyze_availability(session, metrics))

\* C23: with n the hard or very hard sessions of the history inside the
\* look-back window, the sequence factor is 0.4 when n >= 2 and the candidate
\* is hard or very hard, 0.7 when n = 1 and the candidate is very hard, and
\* 1.0 otherwise (no history included); and a factor of 0.4 gives a strictly
\* lower composite than 1.0 would, the other factors being equal.
C23_SequenceFactor ==
    SequenceCalled =>
        /\ last.factor = Some(ClaimedSequence(HardInWindow))
        /\ last.recent = Some(<<>>) => last.factor = Some(1000)
        /\ last.factor = Some(400) => CompositeWith(400) < CompositeWith(1000)

\* One hard session in the window before a hard, not very hard, candidate.
C23_Witness ==
    /\ SequenceCalled
    /\ HardInWindow = 1
    /\ session.intensity = "HARD"
    /\ last.factor = Some(1000)

\* The hard and very hard sessions completed in the 48 hours before the call.
HardInLast48Hours ==
    LET recent == Val(last.recent)
    IN  Cardinality({i \in 1..Len(recent) :
                       /\ recent[i].completed_at # None
                       /\ Val(last.now) - Val(recent[i].completed_at) \in 0..48
                       /\ recent[i].intensity \in {"HARD", "VERY_HARD"}})

\* C24: the sequence analyzer counts exactly the sessions completed within
\* the 48 hours before the call: a session completed more than 48 hours ago,
\* or with no completion time, never contributes to the factor.
C24_WindowIs48Hours == SequenceCalled => last.factor = Some(ClaimedSequence(HardInLast48Hours))

(***************************************************************************)
(* C25, C26, C27: what lightening does to zones, intensity and distances   *)
(***************************************************************************)
\* after is before times reduction / 100, cut down to a whole number.
ScaledDown(before, after, reduction) ==
    IF before = None THEN after = None
    ELSE after # None /\ Val(after) * 100 <= Val(before) * reduction /\ Val(before) * reduction < (Val(after) + 1) * 100

\* after is before times reduction / 100, to the nearest hundredth of a
\* kilometre (a tie may fall either way in binary floating point).
ScaledToHundredths(before, after, reduction) ==
    IF before = None THEN after = None
    ELSE after # None /\ Abs(Val(after) * 100 - Val(before) * reduction) <= 50

ZoneScaled(before, after, reduction) ==
    /\ ScaledDown(before.duration_minutes, after.duration_minutes, reduction)
    /\ ScaledToHundredths(before.distance_km, after.distance_km, reduction)
    /\ after.description = before.description
    /\ after.pace_min_per_km = before.pace_min_per_km
    /\ after.pace_max_per_km = before.pace_max_per_km
    /\ after.hr_zone = before.hr_zone
    /\ after.repetitions = before.repetitions
    /\ after.recovery_minutes = before.recovery_minutes

ClaimedDemotion(intensity) ==
    CASE intensity = "VERY_HARD" -> "HARD"
      [] intensity = "HARD" -> "MODERATE"
      [] OTHER -> intensity

\* C26: lightening demotes the intensity by one tier when it is hard or very
\* hard (very hard to hard, hard to moderate) and leaves moderate, easy and
\* very easy as they are.
C26_IntensityDemoted == Lightened => Val(last.session).intensity = ClaimedDemotion(session.intensity)

C26_Witness ==
    /\ Lightened
    /\ session.intensity = "VERY_HARD"
    /\ Val(last.session).intensity = "HARD"

\* C27: lightening multiplies distance_km by the factor and rounds to two
\* decimals, the session's total as well as every PaceZone's distance.
C27_DistanceTwoDecimals ==
    Lightened =>
        LET after == Val(last.session)
            reduction == Val(last.reduction)
        IN  /\ ScaledToHundredths(session.distance_km, after.distance_km, reduction)
            /\ \A i \in 1..Len(session.structure) :
                   ScaledToHundredths(session.structure[i].distance_km, after.structure[i].distance_km, reduction)

(***************************************************************************)
(* C28: adapt_session leaves its input alone                               *)
(***************************************************************************)
\* C28: adapt_session never changes the session it is given (every field is
\* after the call what it was before), and a modified session it returns has
\* no PaceZone object in common with that input.
C28_InputUntouched ==
    [][(last'.op = "adapt_session" /\ ~last'.raised) => (session' = session /\ last'.shared = Some({}))]_vars

\* A lightened session came back, its zones scaled, the input's zones not.
C28_Witness ==
    /\ Adapted
    /\ Val(last.rec).action = "REDUCE"
    /\ Val(Val(last.rec).modified_session).structure # session.structure
    /\ session.structure = SampleStructure
    /\ last.shared = Some({})

(***************************************************************************)
(* C29: quick_adapt never postpones or cancels                             *)
(***************************************************************************)
QuickCalled == last.op = "quick_adapt"

QuickComposite ==
    LET f == Val(last.factors)
    IN  CompositeScore(f.recovery, f.load, f.sequence, f.availability)

\* C29: quick_adapt never returns POSTPONE or CANCEL: whatever the session,
\* the score in [0, 100] and has_time, the load factor is the neutral 0.7 and
\* the sequence factor 1.0, and the composite score is at least the poor
\* threshold of the session.
C29_QuickNeverPostpones ==
    QuickCalled =>
        /\ Val(last.rec).action \notin {"POSTPONE", "CANCEL"}
        /\ Val(last.factors).load = 700
        /\ Val(last.factors).sequence = 1000
        /\ QuickComposite >= Threshold("poor", session)

\* The lowest composite of the grid: a score of 2.5 and a session too long
\* for the day, which is replaced.
C29_Witness ==
    /\ QuickCalled
    /\ last.score = Some(ScoreGrid)
    /\ Val(last.factors).availability = 300
    /\ QuickComposite < 45 * PointScale
    /\ Val(last.rec).action = "REPLACE"

(***************************************************************************)
(* C30: the can_be_replaced flag                                           *)
(***************************************************************************)
\* C30: adapt_session never returns REPLACE for a session whose
\* can_be_replaced flag is false.
C30_ReplaceRespectsFlag == (Adapted /\ ~session.can_be_replaced) => Val(last.rec).action # "REPLACE"

====
